---- MODULE Spec2Model ----
(***************************************************************************)
(* A model of merge_files.py: main() as a state machine over a directory   *)
(* of delimited files, with the table operations (source tagging, project  *)
(* filtering, identifying-column removal, helper columns, column           *)
(* reconciliation, concatenation, duplicate removal) as operators.         *)
(*                                                                         *)
(* A table (a DataFrame read with dtype=str) is a record                   *)
(*   [cols |-> sequence of distinct column names,                          *)
(*    rows |-> sequence of rows, each a function from the columns to text] *)
(* and a missing cell (pandas' NaN, written back as a blank) is NaN.       *)
(***************************************************************************)
EXTENDS Naturals, Integers, Sequences, FiniteSets, TLC

VARIABLES
    pc,                       \* position in main / merge_csvs / read_csv_file
    args,                     \* the parsed command line (argparse.Namespace)
    dir,                      \* the input directory: path -> file content
    only_projects,            \* main: parse_project_list(args.only_projects)
    exclude_projects,         \* main: parse_project_list(args.exclude_projects)
    remove_identifying_info,  \* main: the resolved removal policy
    files,                    \* main: the sorted list of input paths
    nread,                    \* merge_csvs: how many files pd.read_csv was called on
    df_in,                    \* read_csv_file: df as it entered the latest step
    df,                       \* read_csv_file: the local df
    frames,                   \* merge_csvs: the transformed tables, in file order
    reconciled,               \* merge_csvs: frames after apply_column_mode
    concat,                   \* merge_csvs: the result of pd.concat
    merged,                   \* merge_csvs: the result of drop_duplicate_rows
    removed,                  \* merge_csvs: rows removed by drop_duplicate_rows
    exit_code,                \* what main returned (NoExit while running or raised)
    written                   \* the table written at the output path (or Nothing)

vars == <<pc, args, dir, only_projects, exclude_projects, remove_identifying_info,
          files, nread, df_in, df, frames, reconciled, concat, merged, removed,
          exit_code, written>>

----------------------------------------------------------------------------
(* Values *)

\* pandas' missing value: what read_csv gives for a blank cell, what concat
\* fills in for an absent column, and what to_datetime/strftime give for an
\* unparseable timestamp.
NaN == "NaN"

\* main has not returned.
NoExit == -1

EmptyTable == [cols |-> <<>>, rows |-> <<>>]

\* No table: merge_csvs' None, and the absence of an output file.
Nothing == [cols |-> <<"<none>">>, rows |-> <<>>]

Range(s) == {s[i] : i \in DOMAIN s}

\* "col in df.columns"
HasColumn(t, c) == \E i \in DOMAIN t.cols : t.cols[i] = c

\* set(df.columns)
ColSet(t) == Range(t.cols)

\* The position of column c in the column list (0 when absent).
ColPos(cols, c) == IF \E i \in DOMAIN cols : cols[i] = c
                   THEN CHOOSE i \in DOMAIN cols : cols[i] = c
                   ELSE 0

\* [c for c in cols if c in keep]
FilterCols(cols, keep) == SelectSeq(cols, LAMBDA c : c \in keep)

\* The rows of s at which Test holds, in order (boolean-mask indexing).
RECURSIVE MaskRows(_, _)
MaskRows(s, mask) ==
    IF s = <<>> THEN <<>>
    ELSE IF mask[1]
         THEN <<s[1]>> \o MaskRows(Tail(s), Tail(mask))
         ELSE MaskRows(Tail(s), Tail(mask))

----------------------------------------------------------------------------
(* read_csv_file and the transformations it applies *)

\* df.insert(0, "source_file", name) / df["source_file"] = name
AddSourceColumn(t, name) ==
    IF ~HasColumn(t, "source_file")
    THEN [cols |-> <<"source_file">> \o t.cols,
          rows |-> [i \in DOMAIN t.rows |->
                      [c \in ColSet(t) \cup {"source_file"} |->
                          IF c = "source_file" THEN name ELSE t.rows[i][c]]]]
    ELSE [cols |-> t.cols,
          rows |-> [i \in DOMAIN t.rows |->
                      [t.rows[i] EXCEPT !["source_file"] = name]]]

\* df.drop(columns=to_drop)
DropColumns(t, to_drop) ==
    [cols |-> FilterCols(t.cols, ColSet(t) \ to_drop),
     rows |-> [i \in DOMAIN t.rows |->
                 [c \in ColSet(t) \ to_drop |-> t.rows[i][c]]]]

IdentifyingColumns == {"project_name"}

drop_identifying_columns(t) ==
    LET to_drop == {c \in ColSet(t) : c \in IdentifyingColumns}
    IN  IF to_drop = {} THEN t ELSE DropColumns(t, to_drop)

\* filter_projects with the exclusion applied whenever excludeProjects is given.
FilterExcludeWinsMutant(t, only, exclude) ==
    IF only = {} /\ exclude = {} THEN t
    ELSE IF ~HasColumn(t, "project_name") THEN t
    ELSE IF only # {} /\ exclude = {}
         THEN [t EXCEPT !.rows = MaskRows(t.rows,
                  [i \in DOMAIN t.rows |-> t.rows[i]["project_name"] \in only])]
         ELSE [t EXCEPT !.rows = MaskRows(t.rows,
                  [i \in DOMAIN t.rows |-> t.rows[i]["project_name"] \notin exclude])]

filter_projects(t, only, exclude) ==
    IF only = {} /\ exclude = {} THEN t
    ELSE IF ~HasColumn(t, "project_name") THEN t
    ELSE IF only # {}
         THEN [t EXCEPT !.rows = MaskRows(t.rows,
                  [i \in DOMAIN t.rows |-> t.rows[i]["project_name"] \in only])]
         ELSE [t EXCEPT !.rows = MaskRows(t.rows,
                  [i \in DOMAIN t.rows |-> t.rows[i]["project_name"] \notin exclude])]

\* df[name] = values: overwrite the column in place, or append it as the last.
AssignColumn(t, name, values) ==
    [cols |-> IF HasColumn(t, name) THEN t.cols ELSE Append(t.cols, name),
     rows |-> [i \in DOMAIN t.rows |->
                 [c \in ColSet(t) \cup {name} |->
                     IF c = name THEN values[i] ELSE t.rows[i][c]]]]

\* pd.to_datetime(errors="coerce", utc=True) then .dt.strftime("%Y-%m %B"):
\* the month label of the instant in UTC, NaN for text that is no timestamp.
MonthLabel(v) ==
    CASE v = "2024-03-05T10:00:00Z"      -> "2024-03 March"
      [] v = "2024-03-31T23:30:00-02:00" -> "2024-04 April"
      [] OTHER                           -> NaN

HelperRequired == <<"start_time_iso", "end_time_iso">>

\* add_helper_columns adding the month columns when either ISO column is present.
HelperEitherColumnMutant(t) ==
    LET present == SelectSeq(HelperRequired, LAMBDA c : HasColumn(t, c))
        label(i, c) == IF HasColumn(t, c) THEN MonthLabel(t.rows[i][c]) ELSE NaN
    IN  IF present = <<>> THEN t
        ELSE AssignColumn(AssignColumn(t, "start_month",
                              [i \in DOMAIN t.rows |-> label(i, "start_time_iso")]),
                          "end_month",
                          [i \in DOMAIN t.rows |-> label(i, "end_time_iso")])

add_helper_columns(t) ==
    LET missing == SelectSeq(HelperRequired, LAMBDA c : ~HasColumn(t, c))
    IN  IF missing # <<>> THEN t
        ELSE LET start_dt == [i \in DOMAIN t.rows |-> MonthLabel(t.rows[i]["start_time_iso"])]
                 end_dt   == [i \in DOMAIN t.rows |-> MonthLabel(t.rows[i]["end_time_iso"])]
             IN  AssignColumn(AssignColumn(t, "start_month", start_dt),
                              "end_month", end_dt)

----------------------------------------------------------------------------
(* apply_column_mode, pd.concat, drop_duplicate_rows *)

\* set.intersection(*cols_sets) if cols_sets else set()
RECURSIVE SetIntersection(_)
SetIntersection(cols_sets) ==
    IF cols_sets = <<>> THEN {}
    ELSE IF Len(cols_sets) = 1 THEN cols_sets[1]
    ELSE cols_sets[1] \cap SetIntersection(Tail(cols_sets))

\* df[ordered_common]
SelectColumns(t, ordered) ==
    [cols |-> ordered,
     rows |-> [i \in DOMAIN t.rows |-> [c \in Range(ordered) |-> t.rows[i][c]]]]

\* apply_column_mode with strict mode comparing column sets, not lists.
StrictAsSetsMutant(fs, cols_sets, mode) ==
    IF mode = "intersection"
    THEN LET common_cols == SetIntersection(cols_sets)
             ordered_common == FilterCols(fs[1].cols, common_cols)
         IN  [frames |-> [i \in DOMAIN fs |-> SelectColumns(fs[i], ordered_common)],
              code |-> 0]
    ELSE IF mode = "strict"
              /\ \E i \in 2..Len(fs) : ColSet(fs[i]) # ColSet(fs[1])
         THEN [frames |-> fs, code |-> 2]
         ELSE [frames |-> fs, code |-> 0]

\* apply_column_mode with each table keeping its own order of the common columns.
IntersectionOrderMutant(fs, cols_sets, mode) ==
    IF mode = "intersection"
    THEN LET common_cols == SetIntersection(cols_sets)
         IN  [frames |-> [i \in DOMAIN fs |->
                            SelectColumns(fs[i], FilterCols(fs[i].cols, common_cols))],
              code |-> 0]
    ELSE IF mode = "strict"
              /\ \E i \in 2..Len(fs) : fs[i].cols # fs[1].cols
         THEN [frames |-> fs, code |-> 2]
         ELSE [frames |-> fs, code |-> 0]

apply_column_mode(fs, cols_sets, mode) ==
    IF mode = "intersection"
    THEN LET common_cols == SetIntersection(cols_sets)
             ordered_common == FilterCols(fs[1].cols, common_cols)
         IN  [frames |-> [i \in DOMAIN fs |-> SelectColumns(fs[i], ordered_common)],
              code |-> 0]
    ELSE IF mode = "strict"
              /\ \E i \in 2..Len(fs) : fs[i].cols # fs[1].cols
         THEN [frames |-> fs, code |-> 2]
         ELSE [frames |-> fs, code |-> 0]

\* The union of the column indexes, unsorted: each list's new names are
\* appended in their order.
RECURSIVE UnionIndexes(_, _)
UnionIndexes(acc, fs) ==
    IF fs = <<>> THEN acc
    ELSE UnionIndexes(acc \o FilterCols(fs[1].cols, ColSet(fs[1]) \ Range(acc)),
                      Tail(fs))

\* A table's rows over the columns `cols`, NaN where the table has no such column.
Reindex(t, cols) ==
    [i \in DOMAIN t.rows |->
        [c \in Range(cols) |-> IF HasColumn(t, c) THEN t.rows[i][c] ELSE NaN]]

RECURSIVE ConcatRows(_, _)
ConcatRows(fs, cols) ==
    IF fs = <<>> THEN <<>>
    ELSE Reindex(fs[1], cols) \o ConcatRows(Tail(fs), cols)

\* pd.concat with the last table's columns leading the union.
PdConcatLastFirstMutant(fs) ==
    LET cols == UnionIndexes(<<>>, <<fs[Len(fs)]>> \o fs)
    IN  [cols |-> cols, rows |-> ConcatRows(fs, cols)]

\* pd.concat(frames, ignore_index=True, sort=False)
PdConcat(fs) ==
    LET cols == UnionIndexes(<<>>, fs)
    IN  [cols |-> cols, rows |-> ConcatRows(fs, cols)]

dedupe_cols ==
    <<"start_time", "end_time", "start_time_iso", "end_time_iso", "amount_value",
      "amount_currency", "line_item", "project_id", "organization_id">>

\* A row's values in the subset columns.
KeyOf(row, subset) == [k \in DOMAIN subset |-> row[subset[k]]]

\* df.drop_duplicates(subset=..., keep="first"): a scan that keeps a row when
\* its key has not been seen.
RECURSIVE DropDuplicates(_, _, _)
DropDuplicates(rows, subset, seen) ==
    IF rows = <<>> THEN <<>>
    ELSE LET k == KeyOf(rows[1], subset)
         IN  IF k \in seen
             THEN DropDuplicates(Tail(rows), subset, seen)
             ELSE <<rows[1]>> \o DropDuplicates(Tail(rows), subset, seen \cup {k})

\* A scan that keeps a row when its key does not come again.
RECURSIVE DropDuplicatesKeepLast(_, _)
DropDuplicatesKeepLast(rows, subset) ==
    IF rows = <<>> THEN <<>>
    ELSE IF \E j \in 2..Len(rows) : KeyOf(rows[j], subset) = KeyOf(rows[1], subset)
         THEN DropDuplicatesKeepLast(Tail(rows), subset)
         ELSE <<rows[1]>> \o DropDuplicatesKeepLast(Tail(rows), subset)

\* drop_duplicate_rows with keep="last".
DedupeKeepLastMutant(t) ==
    LET missing == SelectSeq(dedupe_cols, LAMBDA c : ~HasColumn(t, c))
    IN  IF missing # <<>> THEN [table |-> t, removed |-> 0]
        ELSE LET deduped == [t EXCEPT !.rows = DropDuplicatesKeepLast(t.rows, dedupe_cols)]
             IN  [table |-> deduped, removed |-> Len(t.rows) - Len(deduped.rows)]

\* drop_duplicate_rows removing duplicates over the key columns that are present.
DedupeAnyPresentMutant(t) ==
    LET present == SelectSeq(dedupe_cols, LAMBDA c : HasColumn(t, c))
    IN  IF present = <<>> THEN [table |-> t, removed |-> 0]
        ELSE LET deduped == [t EXCEPT !.rows = DropDuplicates(t.rows, present, {})]
             IN  [table |-> deduped, removed |-> Len(t.rows) - Len(deduped.rows)]

drop_duplicate_rows(t) ==
    LET missing == SelectSeq(dedupe_cols, LAMBDA c : ~HasColumn(t, c))
    IN  IF missing # <<>> THEN [table |-> t, removed |-> 0]
        ELSE LET before == Len(t.rows)
                 deduped == [t EXCEPT !.rows = DropDuplicates(t.rows, dedupe_cols, {})]
             IN  [table |-> deduped, removed |-> before - Len(deduped.rows)]

----------------------------------------------------------------------------
(* parse_project_list: a command-line value is a sequence of characters *)

Whitespace == {" "}

\* value.split(","): the pieces between the commas (one more than the commas).
RECURSIVE SplitComma(_, _)
SplitComma(value, piece) ==
    IF value = <<>> THEN <<piece>>
    ELSE IF Head(value) = ","
         THEN <<piece>> \o SplitComma(Tail(value), <<>>)
         ELSE SplitComma(Tail(value), Append(piece, Head(value)))

RECURSIVE LStrip(_)
LStrip(s) == IF s # <<>> /\ Head(s) \in Whitespace THEN LStrip(Tail(s)) ELSE s

RECURSIVE RStrip(_)
RStrip(s) == IF s # <<>> /\ s[Len(s)] \in Whitespace
             THEN RStrip(SubSeq(s, 1, Len(s) - 1)) ELSE s

\* item.strip()
Strip(s) == RStrip(LStrip(s))

\* The text made of the characters of s.
RECURSIVE Text(_)
Text(s) == IF s = <<>> THEN "" ELSE Head(s) \o Text(Tail(s))

parse_project_list(value) ==
    IF value = <<>> THEN {}
    ELSE LET items == [i \in DOMAIN SplitComma(value, <<>>) |->
                          Strip(SplitComma(value, <<>>)[i])]
         IN  {Text(items[i]) : i \in {j \in DOMAIN items : items[j] # <<>>}}

----------------------------------------------------------------------------
(* File discovery *)

OutputPath == "merged.csv"

\* The paths the input directory may hold, in sorted order.
PathOrder ==
    <<"a.csv", "b.csv", "c.csv", "d.csv", "latest.csv", "merged.csv", "self.csv">>

\* sorted(list_csv_files(...)): every file of the directory matches the pattern.
SortedFiles(d) == SelectSeq(PathOrder, LAMBDA p : p \in DOMAIN d)

\* Path.resolve(): latest.csv is a symbolic link to the output file, self.csv
\* is a symbolic link to itself, and the other paths are regular files.
Resolve(p) == IF p = "latest.csv" THEN OutputPath ELSE p

\* The paths whose resolve() raises where the interpreter raises on a loop of
\* symbolic links (RuntimeError before Python 3.13, no exception from 3.13 on).
ResolveRaises(p) == p = "self.csv"

\* exclude_output_file: the whole list is returned when a resolve() raises.
exclude_output_file(fs, output, loops_raise) ==
    IF loops_raise /\ \E p \in Range(fs) \cup {output} : ResolveRaises(p)
    THEN fs
    ELSE SelectSeq(fs, LAMBDA f : Resolve(f) # Resolve(output))

----------------------------------------------------------------------------
(* The inputs: command lines and directories *)

\* The most input files in a directory of the column-reconciliation runs.
MaxFiles == 2
\* The most rows of a file in the column-reconciliation runs.
MaxRows == 1
\* The most rows of a file in the duplicate-removal runs.
MaxDedupeRows == 3
\* The most rows of a file in the project-filter runs.
MaxFilterRows == 2

Modes == {"union", "intersection", "strict"}

\* The row of a table whose cells name their column: "x1" under x, a project
\* "p" under project_name, a March timestamp under the ISO columns.
BaseValue(c) ==
    IF c = "project_name" THEN "p"
    ELSE IF c \in Range(HelperRequired) THEN "2024-03-05T10:00:00Z"
    ELSE c \o "1"

\* The other texts a cell of column c takes.
AltValues(c) ==
    IF c = "project_name" THEN {"q", NaN}
    ELSE IF c \in Range(HelperRequired) THEN {"2024-03-31T23:30:00-02:00", "soon"}
    ELSE {c \o "2", NaN}

BaseRow(cols) == [c \in Range(cols) |-> BaseValue(c)]

\* The base row, and the rows that differ from it in one cell of a column of vary.
RowsOver(cols, vary) ==
    {BaseRow(cols)} \cup
    {[BaseRow(cols) EXCEPT ![c] = v] : <<c, v>> \in
        UNION {{<<c, v>> : v \in AltValues(c)} : c \in vary \cap Range(cols)}}

SeqsUpTo(S, n) == UNION {[1..k -> S] : k \in 0..n}

TablesOver(cols, vary, n) ==
    {[cols |-> cols, rows |-> rs] : rs \in SeqsUpTo(RowsOver(cols, vary), n)}

Parsed(T) == {[ok |-> TRUE, table |-> t] : t \in T}

\* A file pd.read_csv raises on.
Unparseable == [ok |-> FALSE, table |-> EmptyTable]

\* The directories holding the first 1..n paths, each with a content of C.
DirsOver(C, n) == UNION {[Range(SubSeq(PathOrder, 1, k)) -> C] : k \in 1..n}

ArgsOver(modes, sources, keeps, onlys, excludes) ==
    [mode : modes, add_source : sources, keep_identifying_info : keeps,
     only_projects : onlys, exclude_projects : excludes, output : {OutputPath}]

\* Column reconciliation: files whose column lists differ in membership and
\* in order, some of them unparseable; a file's rows are copies of its base
\* row, told apart across files by the source column.
ColumnArgs == ArgsOver(Modes, BOOLEAN, {TRUE}, {<<>>}, {<<>>})

ColumnContents ==
    Parsed(TablesOver(<<"x", "y">>, {}, MaxRows)
           \cup TablesOver(<<"y", "x">>, {}, MaxRows)
           \cup TablesOver(<<"y", "z">>, {}, MaxRows))
    \cup {Unparseable}

ColumnDirs == DirsOver(ColumnContents, MaxFiles)

\* Duplicate removal: one file with the nine key columns (or all but the
\* last, or all but start_time_iso) and a column outside the key; rows differ
\* in the first key column, in the last, in a blank key cell, or outside the key.
DedupeArgs == ArgsOver({"union"}, {FALSE}, {TRUE}, {<<>>}, {<<>>})

DedupeVary == {"start_time", "organization_id", "extra"}

WithoutColumn(cols, c) == SelectSeq(cols, LAMBDA d : d # c)

DedupeContents ==
    Parsed(TablesOver(dedupe_cols \o <<"extra">>, DedupeVary, MaxDedupeRows)
           \cup TablesOver(WithoutColumn(dedupe_cols, "organization_id") \o <<"extra">>,
                           DedupeVary, MaxDedupeRows)
           \cup TablesOver(WithoutColumn(dedupe_cols, "start_time_iso") \o <<"extra">>,
                           DedupeVary, MaxDedupeRows))

DedupeDirs == DirsOver(DedupeContents, 1)

\* Project filters: every pair of list values, one file with or without the
\* project_name column.
RawLists ==
    {<<>>, <<"p">>, <<" ", "q", " ">>, <<"p", ",", " ", "q">>, <<",", " ">>}

FilterArgs == ArgsOver({"union"}, BOOLEAN, BOOLEAN, RawLists, RawLists)

FilterContents ==
    Parsed(TablesOver(<<"project_name", "x">>, {"project_name"}, MaxFilterRows)
           \cup TablesOver(<<"x">>, {}, MaxFilterRows))

FilterDirs == DirsOver(FilterContents, 1)

\* Identifying-column removal: two files with a project_name column, whose
\* other columns agree or differ, under every removal policy and mode.
RemovalArgs == ArgsOver(Modes, {FALSE}, BOOLEAN, {<<>>, <<"p">>}, {<<>>, <<"p">>})

RemovalDirs ==
    {[p \in {"a.csv", "b.csv"} |-> IF p = "a.csv" THEN ca ELSE cb] :
        ca \in Parsed(TablesOver(<<"project_name", "x">>, {"project_name"}, MaxRows)),
        cb \in Parsed(TablesOver(<<"project_name", "x">>, {}, MaxRows)
                      \cup TablesOver(<<"y", "project_name">>, {}, MaxRows))}

\* A directory with no input file, and directories that hold the output of an
\* earlier run, with or without a link to it or a link to itself, which
\* cannot be opened.
EdgeArgs == ArgsOver({"union"}, {FALSE}, {TRUE}, {<<>>}, {<<>>})

EdgeDirs ==
    {<<>>} \cup
    UNION {{[p \in {OutputPath} |-> c],
            [p \in {"a.csv", "latest.csv", OutputPath} |-> c],
            [p \in {OutputPath, "self.csv"} |->
                IF p = "self.csv" THEN Unparseable ELSE c],
            [p \in {"a.csv", OutputPath, "self.csv"} |->
                IF p = "self.csv" THEN Unparseable ELSE c]} :
              c \in Parsed(TablesOver(<<"x", "y">>, {}, 1))}

----------------------------------------------------------------------------
(* main *)

Init ==
    /\ pc = "main"
    /\ \/ args \in ColumnArgs /\ dir \in ColumnDirs
       \/ args \in DedupeArgs /\ dir \in DedupeDirs
       \/ args \in FilterArgs /\ dir \in FilterDirs
       \/ args \in RemovalArgs /\ dir \in RemovalDirs
       \/ args \in EdgeArgs /\ dir \in EdgeDirs
    /\ only_projects = {}
    /\ exclude_projects = {}
    /\ remove_identifying_info = FALSE
    /\ files = <<>>
    /\ nread = 0
    /\ df_in = EmptyTable
    /\ df = EmptyTable
    /\ frames = <<>>
    /\ reconciled = <<>>
    /\ concat = Nothing
    /\ merged = Nothing
    /\ removed = 0
    /\ exit_code = NoExit
    /\ written = Nothing

\* main without the check that the two project lists exclude each other.
ConfigureNoRejectMutant ==
    /\ pc = "main"
    /\ LET only == parse_project_list(args.only_projects)
           exclude == parse_project_list(args.exclude_projects)
       IN  /\ only_projects' = only
           /\ exclude_projects' = exclude
           /\ pc' = "discover"
           /\ remove_identifying_info' =
                (IF only # {} THEN FALSE
                 ELSE IF exclude # {} THEN TRUE
                 ELSE ~args.keep_identifying_info)
           /\ UNCHANGED exit_code
    /\ UNCHANGED <<args, dir, files, nread, df_in, df, frames, reconciled, concat,
                   merged, removed, written>>

\* main: the project lists and the removal policy.
Configure ==
    /\ pc = "main"
    /\ LET only == parse_project_list(args.only_projects)
           exclude == parse_project_list(args.exclude_projects)
       IN  /\ only_projects' = only
           /\ exclude_projects' = exclude
           /\ IF only # {} /\ exclude # {}
              THEN /\ pc' = "done"
                   /\ exit_code' = 2
                   /\ UNCHANGED remove_identifying_info
              ELSE /\ pc' = "discover"
                   /\ remove_identifying_info' =
                        (IF only # {} THEN FALSE
                         ELSE IF exclude # {} THEN TRUE
                         ELSE ~args.keep_identifying_info)
                   /\ UNCHANGED exit_code
    /\ UNCHANGED <<args, dir, files, nread, df_in, df, frames, reconciled, concat,
                   merged, removed, written>>

\* main: the sorted input files without the output file.
Discover ==
    /\ pc = "discover"
    /\ \E loops_raise \in BOOLEAN :
          files' = exclude_output_file(SortedFiles(dir), args.output, loops_raise)
    /\ IF files' = <<>>
       THEN pc' = "done" /\ exit_code' = 0
       ELSE pc' = "read" /\ UNCHANGED exit_code
    /\ UNCHANGED <<args, dir, only_projects, exclude_projects, remove_identifying_info,
                   nread, df_in, df, frames, reconciled, concat, merged, removed,
                   written>>

\* merge_csvs skipping a file that cannot be read.
ReadCsvSkipMutant ==
    /\ pc = "read"
    /\ nread < Len(files)
    /\ nread' = nread + 1
    /\ LET file_path == files[nread + 1]
       IN  IF ~dir[file_path].ok
           THEN /\ pc' = (IF nread' = Len(files) THEN "reconcile" ELSE "read")
                /\ UNCHANGED <<df_in, df, exit_code>>
           ELSE /\ pc' = "filter"
                /\ df_in' = dir[file_path].table
                /\ df' = (IF args.add_source
                          THEN AddSourceColumn(dir[file_path].table, file_path)
                          ELSE dir[file_path].table)
                /\ UNCHANGED exit_code
    /\ UNCHANGED <<args, dir, only_projects, exclude_projects, remove_identifying_info,
                   files, frames, reconciled, concat, merged, removed, written>>

\* merge_csvs' loop entering read_csv_file: pd.read_csv, then the source column.
ReadCsv ==
    /\ pc = "read"
    /\ nread < Len(files)
    /\ nread' = nread + 1
    /\ LET file_path == files[nread + 1]
       IN  IF ~dir[file_path].ok
           THEN /\ pc' = "done"
                /\ exit_code' = 1
                /\ UNCHANGED <<df_in, df>>
           ELSE /\ pc' = "filter"
                /\ df_in' = dir[file_path].table
                /\ df' = (IF args.add_source
                          THEN AddSourceColumn(dir[file_path].table, file_path)
                          ELSE dir[file_path].table)
                /\ UNCHANGED exit_code
    /\ UNCHANGED <<args, dir, only_projects, exclude_projects, remove_identifying_info,
                   files, frames, reconciled, concat, merged, removed, written>>

\* read_csv_file with the identifying columns dropped before the project filter.
FilterAfterRemovalMutant ==
    /\ pc = "filter"
    /\ df_in' = df
    /\ LET dropped == IF remove_identifying_info THEN drop_identifying_columns(df) ELSE df
       IN  df' = (IF only_projects # {} \/ exclude_projects # {}
                  THEN filter_projects(dropped, only_projects, exclude_projects)
                  ELSE dropped)
    /\ pc' = "drop"
    /\ UNCHANGED <<args, dir, only_projects, exclude_projects, remove_identifying_info,
                   files, nread, frames, reconciled, concat, merged, removed,
                   exit_code, written>>

\* read_csv_file: the project filter.
FilterProjects ==
    /\ pc = "filter"
    /\ df_in' = df
    /\ df' = (IF only_projects # {} \/ exclude_projects # {}
              THEN filter_projects(df, only_projects, exclude_projects)
              ELSE df)
    /\ pc' = "drop"
    /\ UNCHANGED <<args, dir, only_projects, exclude_projects, remove_identifying_info,
                   files, nread, frames, reconciled, concat, merged, removed,
                   exit_code, written>>

\* read_csv_file: the identifying columns.
DropIdentifying ==
    /\ pc = "drop"
    /\ df_in' = df
    /\ df' = (IF remove_identifying_info THEN drop_identifying_columns(df) ELSE df)
    /\ pc' = "helper"
    /\ UNCHANGED <<args, dir, only_projects, exclude_projects, remove_identifying_info,
                   files, nread, frames, reconciled, concat, merged, removed,
                   exit_code, written>>

\* read_csv_file: the helper columns; merge_csvs appends the table.
AddHelpers ==
    /\ pc = "helper"
    /\ df_in' = df
    /\ df' = add_helper_columns(df)
    /\ frames' = Append(frames, df')
    /\ pc' = (IF nread = Len(files) THEN "reconcile" ELSE "read")
    /\ UNCHANGED <<args, dir, only_projects, exclude_projects, remove_identifying_info,
                   files, nread, reconciled, concat, merged, removed, exit_code,
                   written>>

\* cols_sets, as merge_csvs collects it.
ColsSets(fs) == [i \in DOMAIN fs |-> ColSet(fs[i])]

\* merge_csvs: apply_column_mode and its exit code.
Reconcile ==
    /\ pc = "reconcile"
    /\ LET r == apply_column_mode(frames, ColsSets(frames), args.mode)
       IN  IF r.code # 0
           THEN pc' = "done" /\ exit_code' = r.code /\ UNCHANGED reconciled
           ELSE pc' = "concat" /\ reconciled' = r.frames /\ UNCHANGED exit_code
    /\ UNCHANGED <<args, dir, only_projects, exclude_projects, remove_identifying_info,
                   files, nread, df_in, df, frames, concat, merged, removed, written>>

\* merge_csvs: pd.concat.
Concat ==
    /\ pc = "concat"
    /\ concat' = PdConcat(reconciled)
    /\ pc' = "dedupe"
    /\ UNCHANGED <<args, dir, only_projects, exclude_projects, remove_identifying_info,
                   files, nread, df_in, df, frames, reconciled, merged, removed,
                   exit_code, written>>

\* merge_csvs: drop_duplicate_rows.
Dedupe ==
    /\ pc = "dedupe"
    /\ LET r == drop_duplicate_rows(concat)
       IN  merged' = r.table /\ removed' = r.removed
    /\ pc' = "write"
    /\ UNCHANGED <<args, dir, only_projects, exclude_projects, remove_identifying_info,
                   files, nread, df_in, df, frames, reconciled, concat, exit_code,
                   written>>

\* write_output: mkdir raises outside the try and the exception leaves main.
WriteMkdirRaises ==
    /\ pc = "write"
    /\ pc' = "raised"
    /\ UNCHANGED <<args, dir, only_projects, exclude_projects, remove_identifying_info,
                   files, nread, df_in, df, frames, reconciled, concat, merged,
                   removed, exit_code, written>>

\* write_output: to_csv raises inside the try.
WriteToCsvRaises ==
    /\ pc = "write"
    /\ pc' = "done"
    /\ exit_code' = 3
    /\ UNCHANGED <<args, dir, only_projects, exclude_projects, remove_identifying_info,
                   files, nread, df_in, df, frames, reconciled, concat, merged,
                   removed, written>>

\* write_output: the file is written.
WriteOk ==
    /\ pc = "write"
    /\ written' = merged
    /\ pc' = "done"
    /\ exit_code' = 0
    /\ UNCHANGED <<args, dir, only_projects, exclude_projects, remove_identifying_info,
                   files, nread, df_in, df, frames, reconciled, concat, merged,
                   removed>>

Next ==
    \/ Configure
    \/ Discover
    \/ ReadCsv
    \/ FilterProjects
    \/ DropIdentifying
    \/ AddHelpers
    \/ Reconcile
    \/ Concat
    \/ Dedupe
    \/ WriteMkdirRaises
    \/ WriteToCsvRaises
    \/ WriteOk

Spec == Init /\ [][Next]_vars

----------------------------------------------------------------------------
(* filter_projects called on its own, as a caller of the module may, with
   any pair of project sets *)

ProjectSets == {parse_project_list(v) : v \in RawLists}

FilterCallTables ==
    TablesOver(<<"project_name", "x">>, {"project_name", "x"}, MaxFilterRows)
    \cup TablesOver(<<"x", "project_name">>, {"project_name"}, MaxFilterRows)
    \cup TablesOver(<<"x">>, {"x"}, MaxFilterRows)

InitFilterCall ==
    /\ pc = "filter_projects"
    /\ df \in FilterCallTables
    /\ only_projects \in ProjectSets
    /\ exclude_projects \in ProjectSets
    /\ args \in EdgeArgs
    /\ dir = <<>>
    /\ remove_identifying_info = FALSE
    /\ files = <<>>
    /\ nread = 0
    /\ df_in = EmptyTable
    /\ frames = <<>>
    /\ reconciled = <<>>
    /\ concat = Nothing
    /\ merged = Nothing
    /\ removed = 0
    /\ exit_code = NoExit
    /\ written = Nothing

CallFilterProjects ==
    /\ pc = "filter_projects"
    /\ df_in' = df
    /\ df' = filter_projects(df, only_projects, exclude_projects)
    /\ pc' = "returned"
    /\ UNCHANGED <<args, dir, only_projects, exclude_projects, remove_identifying_info,
                   files, nread, frames, reconciled, concat, merged, removed,
                   exit_code, written>>

SpecFilterCall == InitFilterCall /\ [][CallFilterProjects]_vars

----------------------------------------------------------------------------
(* What the claims' formulas read *)

\* The k-th smallest index of the set I.
KthOf(I, k) == CHOOSE i \in I : Cardinality({j \in I : j <= i}) = k

\* out holds exactly the rows of `rows` at the indexes I, in their order.
IsRowsAt(out, rows, I) ==
    /\ Len(out) = Cardinality(I)
    /\ \A k \in 1..Len(out) : out[k] = rows[KthOf(I, k)]

\* The number of rows of the tables before the i-th.
RECURSIVE RowsBefore(_, _)
RowsBefore(fs, i) ==
    IF i <= 1 THEN 0 ELSE RowsBefore(fs, i - 1) + Len(fs[i - 1].rows)

\* The first table that has column c.
FirstTable(fs, c) ==
    CHOOSE i \in DOMAIN fs :
        HasColumn(fs[i], c) /\ \A j \in 1..(i - 1) : ~HasColumn(fs[j], c)

\* Column a is first seen before column b, reading the tables in order.
SeenBefore(fs, a, b) ==
    \/ FirstTable(fs, a) < FirstTable(fs, b)
    \/ /\ FirstTable(fs, a) = FirstTable(fs, b)
       /\ ColPos(fs[FirstTable(fs, a)].cols, a) < ColPos(fs[FirstTable(fs, a)].cols, b)

\* The columns every table has.
CommonColumns(fs) == {c \in ColSet(fs[1]) : \A j \in DOMAIN fs : HasColumn(fs[j], c)}

\* The rows that are the first to carry their key.
FirstOfKey(rows, subset) ==
    {i \in DOMAIN rows :
        \A j \in 1..(i - 1) : KeyOf(rows[j], subset) # KeyOf(rows[i], subset)}

AllKeyColumns(t) == \A k \in DOMAIN dedupe_cols : HasColumn(t, dedupe_cols[k])

\* Every file was read and merge_csvs has returned.
MergeReturned ==
    /\ files # <<>>
    /\ Len(frames) = Len(files)
    /\ pc \in {"write", "done", "raised"}

RunEnded == pc \in {"done", "raised"}

----------------------------------------------------------------------------
(* C1: in union mode the concatenated table's columns are the union of the
   transformed tables' columns in first-seen order, it has one row per input
   row, and a row of a table that lacks a column is blank there and keeps its
   other cells. *)
C1_UnionMerge ==
    (concat # Nothing /\ args.mode = "union") =>
        /\ Range(concat.cols) = UNION {ColSet(frames[i]) : i \in DOMAIN frames}
        /\ \A p, q \in DOMAIN concat.cols :
              p < q => SeenBefore(frames, concat.cols[p], concat.cols[q])
        /\ Len(concat.rows) = RowsBefore(frames, Len(frames) + 1)
        /\ \A i \in DOMAIN frames : \A k \in DOMAIN frames[i].rows :
              LET row == concat.rows[RowsBefore(frames, i) + k]
              IN  /\ DOMAIN row = Range(concat.cols)
                  /\ \A c \in Range(concat.cols) :
                        row[c] = IF HasColumn(frames[i], c)
                                 THEN frames[i].rows[k][c] ELSE NaN

\* a.csv (x,y) and b.csv (y,z) merged in union mode with the source column.
C1_Witness ==
    /\ args.mode = "union"
    /\ concat # Nothing
    /\ concat.cols = <<"source_file", "x", "y", "z">>
    /\ Len(concat.rows) = 2
    /\ concat.rows[1]["x"] = "x1" /\ concat.rows[1]["z"] = NaN
    /\ concat.rows[2]["x"] = NaN /\ concat.rows[2]["y"] = "y1"
    /\ concat.rows[2]["source_file"] = "b.csv"

(* C2: in intersection mode every reconciled table, and the merged table,
   has exactly the columns all tables have, in the first table's order, and
   keeps every row with its cells of those columns. *)
C2_IntersectionReconcile ==
    (reconciled # <<>> /\ args.mode = "intersection") =>
        /\ Len(reconciled) = Len(frames)
        /\ \A i \in DOMAIN frames :
              LET r == reconciled[i]
                  t == frames[i]
              IN  /\ Range(r.cols) = CommonColumns(frames)
                  /\ \A p, q \in DOMAIN r.cols :
                        p < q => ColPos(frames[1].cols, r.cols[p])
                                   < ColPos(frames[1].cols, r.cols[q])
                  /\ Len(r.rows) = Len(t.rows)
                  /\ \A k \in DOMAIN t.rows :
                        r.rows[k] = [c \in CommonColumns(frames) |-> t.rows[k][c]]
        /\ concat # Nothing =>
              /\ concat.cols = reconciled[1].cols
              /\ Len(concat.rows) = RowsBefore(frames, Len(frames) + 1)
        /\ merged # Nothing => merged.cols = reconciled[1].cols

\* (x,y) and (y,x): the second table takes the first table's order.
C2_Witness ==
    /\ args.mode = "intersection"
    /\ Len(frames) = 2
    /\ frames[1].cols = <<"x", "y">>
    /\ frames[2].cols = <<"y", "x">>
    /\ reconciled # <<>>
    /\ reconciled[2].cols = <<"x", "y">>
    /\ Len(reconciled[2].rows) = 1
    /\ merged # Nothing
    /\ merged.cols = <<"x", "y">>

(* C3: in strict mode merge_csvs returns a table exactly when every table's
   column list equals the first table's; otherwise it returns no table, main
   returns 2 and nothing is written. *)
C3_StrictOutcome ==
    (args.mode = "strict" /\ MergeReturned) =>
        IF \A i \in DOMAIN frames : frames[i].cols = frames[1].cols
        THEN merged # Nothing /\ exit_code \in {NoExit, 0, 3}
        ELSE merged = Nothing /\ pc = "done" /\ exit_code = 2 /\ written = Nothing

\* The same columns in another order are a mismatch.
C3_Witness ==
    /\ args.mode = "strict"
    /\ MergeReturned
    /\ Len(frames) = 2
    /\ frames[1].cols = <<"x", "y">>
    /\ frames[2].cols = <<"y", "x">>
    /\ exit_code = 2

(* C4: with all nine key columns present, drop_duplicate_rows keeps exactly
   the rows that are the first to carry their key, in their order, whatever
   their other cells, and reports rows in minus rows out. *)
C4_DedupeKeepsFirst ==
    (merged # Nothing /\ AllKeyColumns(concat)) =>
        /\ merged.cols = concat.cols
        /\ IsRowsAt(merged.rows, concat.rows, FirstOfKey(concat.rows, dedupe_cols))
        /\ removed = Len(concat.rows) - Len(merged.rows)

\* Rows 1 and 3 share a key and differ outside it; row 2 has another key.
C4_Witness ==
    /\ merged # Nothing
    /\ AllKeyColumns(concat)
    /\ Len(concat.rows) = 3
    /\ KeyOf(concat.rows[1], dedupe_cols) = KeyOf(concat.rows[3], dedupe_cols)
    /\ concat.rows[1]["extra"] # concat.rows[3]["extra"]
    /\ KeyOf(concat.rows[1], dedupe_cols) # KeyOf(concat.rows[2], dedupe_cols)
    /\ merged.rows = <<concat.rows[1], concat.rows[2]>>
    /\ removed = 1

\* A single file merged in union mode with no source column, no project
\* filter and no identifying-column removal.
PlainSingleFileRun ==
    /\ Len(files) = 1
    /\ args.mode = "union"
    /\ ~args.add_source
    /\ only_projects = {} /\ exclude_projects = {}
    /\ ~remove_identifying_info
    /\ merged # Nothing

(* C5, as claimed: such a run yields the parsed input table, whatever its
   columns and rows. *)
C5_RoundTripAnyTable ==
    PlainSingleFileRun => merged = dir[files[1]].table

(* C5, amended: such a run yields the parsed input table when the table
   lacks start_time_iso or end_time_iso. *)
C5_RoundTripWithoutIsoColumns ==
    (PlainSingleFileRun
         /\ \E k \in DOMAIN HelperRequired :
               ~HasColumn(dir[files[1]].table, HelperRequired[k])) =>
        /\ merged = dir[files[1]].table
        /\ written # Nothing => written = dir[files[1]].table

\* A table with end_time_iso but no start_time_iso, with a repeated row.
C5_Witness ==
    /\ PlainSingleFileRun
    /\ HasColumn(dir[files[1]].table, "end_time_iso")
    /\ ~HasColumn(dir[files[1]].table, "start_time_iso")
    /\ Len(dir[files[1]].table.rows) = 2
    /\ dir[files[1]].table.rows[1] = dir[files[1]].table.rows[2]
    /\ written = dir[files[1]].table

\* The position of the first file of the list that cannot be parsed (0: none).
FirstUnparseable ==
    IF \E k \in DOMAIN files : ~dir[files[k]].ok
    THEN CHOOSE k \in DOMAIN files :
            ~dir[files[k]].ok /\ \A j \in 1..(k - 1) : dir[files[j]].ok
    ELSE 0

(* C6: when a file of the list cannot be parsed, no file after it is read,
   and once it has been read main has returned 1 with no table and no
   output, however many files were parsed before it. *)
C6_ReadFailureAborts ==
    FirstUnparseable # 0 =>
        /\ nread <= FirstUnparseable
        /\ written = Nothing
        /\ nread = FirstUnparseable =>
              /\ pc = "done"
              /\ exit_code = 1
              /\ merged = Nothing
              /\ Len(frames) = FirstUnparseable - 1

\* The second of two files fails after the first was parsed.
C6_Witness ==
    /\ Len(files) = 2
    /\ FirstUnparseable = 2
    /\ nread = 2
    /\ Len(frames) = 1
    /\ pc = "done"
    /\ exit_code = 1

(* C7: when the files were merged and the destination cannot be written,
   main returns 3. *)
C7_WriteFailureReturns3 ==
    (merged # Nothing /\ RunEnded /\ written = Nothing) =>
        pc = "done" /\ exit_code = 3

(* C8: with both project lists non-empty main returns 2 and has discovered,
   read and written nothing. *)
C8_ConflictRejectedFirst ==
    (only_projects # {} /\ exclude_projects # {}) =>
        /\ pc = "done"
        /\ exit_code = 2
        /\ files = <<>>
        /\ nread = 0
        /\ frames = <<>>
        /\ written = Nothing

\* "p" against "p, q", over a directory that holds a file.
C8_Witness ==
    /\ only_projects = {"p"}
    /\ exclude_projects = {"p", "q"}
    /\ DOMAIN dir # {}
    /\ exit_code = 2

\* The indexes of the rows whose project_name is in S.
ProjectIn(t, S) == {i \in DOMAIN t.rows : t.rows[i]["project_name"] \in S}

(* C9: on a table with a project_name column filter_projects keeps, in
   order and with the columns as they were, exactly the rows whose project
   is in onlyProjects when that is non-empty, otherwise exactly the rows
   whose project is not in excludeProjects when that is non-empty; with both
   empty or without the column it returns the table as it was. *)
C9_FilterProjects ==
    pc = "returned" =>
        /\ df.cols = df_in.cols
        /\ IF HasColumn(df_in, "project_name") /\ only_projects # {}
           THEN IsRowsAt(df.rows, df_in.rows, ProjectIn(df_in, only_projects))
           ELSE IF HasColumn(df_in, "project_name") /\ exclude_projects # {}
           THEN IsRowsAt(df.rows, df_in.rows,
                         DOMAIN df_in.rows \ ProjectIn(df_in, exclude_projects))
           ELSE df = df_in

\* Both sets given: the row kept is in both, the row dropped is in neither.
C9_Witness ==
    /\ pc = "returned"
    /\ only_projects = {"p"}
    /\ exclude_projects = {"p"}
    /\ HasColumn(df_in, "project_name")
    /\ Len(df_in.rows) = 2
    /\ df_in.rows[1]["project_name"] = "q"
    /\ df_in.rows[2]["project_name"] = "p"
    /\ df.rows = <<df_in.rows[2]>>

(* C10: with a key column absent, drop_duplicate_rows returns the table as
   it was, duplicates included, reports 0 removed, and the run goes on to
   write_output. *)
C10_DedupeSkipped ==
    (concat # Nothing /\ ~AllKeyColumns(concat) /\ pc # "dedupe") =>
        /\ merged = concat
        /\ removed = 0
        /\ pc \in {"write", "raised", "done"}
        /\ pc = "done" => exit_code \in {0, 3}

\* Eight of the nine key columns, two equal rows, both kept.
C10_Witness ==
    /\ pc = "write"
    /\ ~HasColumn(concat, "organization_id")
    /\ \A k \in 1..(Len(dedupe_cols) - 1) : HasColumn(concat, dedupe_cols[k])
    /\ Len(concat.rows) = 2
    /\ concat.rows[1] = concat.rows[2]
    /\ merged = concat
    /\ removed = 0


\* The rows of a parsed table that the project filter lets through.
KeptByFilter(t) ==
    IF HasColumn(t, "project_name") /\ only_projects # {}
    THEN ProjectIn(t, only_projects)
    ELSE IF HasColumn(t, "project_name") /\ exclude_projects # {}
    THEN DOMAIN t.rows \ ProjectIn(t, exclude_projects)
    ELSE DOMAIN t.rows

\* The number of rows the project filter lets through in the first n files.
RECURSIVE KeptInFiles(_)
KeptInFiles(n) ==
    IF n = 0 THEN 0
    ELSE KeptInFiles(n - 1) + Cardinality(KeptByFilter(dir[files[n]].table))

\* The removal policy main resolves once the project lists do not conflict.
RemovalPolicyResolved ==
    (pc # "main" /\ ~(only_projects # {} /\ exclude_projects # {})) =>
        remove_identifying_info =
            (IF only_projects # {} THEN FALSE
             ELSE IF exclude_projects # {} THEN TRUE
             ELSE ~args.keep_identifying_info)

\* Every transformed table holds the rows of its file that the filter lets
\* through, judged on the project_name the file has, without project_name
\* when removal is on and with every other column and cell of the file.
FilteredBeforeRemoval ==
    \A i \in DOMAIN frames :
        LET t == dir[files[i]].table
            f == frames[i]
            I == KeptByFilter(t)
        IN  /\ Len(f.rows) = Cardinality(I)
            /\ remove_identifying_info => ~HasColumn(f, "project_name")
            /\ \A c \in ColSet(t) \ (IF remove_identifying_info
                                     THEN IdentifyingColumns ELSE {}) :
                  /\ HasColumn(f, c)
                  /\ c \notin {"source_file", "start_month", "end_month"} =>
                        \A k \in DOMAIN f.rows : f.rows[k][c] = t.rows[KthOf(I, k)][c]

\* With a deny-list, the merged rows are the rows the filter let through.
DeniedRowsStayOut ==
    (exclude_projects # {} /\ concat # Nothing) =>
        /\ Len(concat.rows) = KeptInFiles(Len(files))
        /\ merged # Nothing => Len(merged.rows) <= KeptInFiles(Len(files))

(* C11, as claimed: the removal policy follows the lists and the flag, each
   file is filtered before removal, and a successful run with removal on
   writes no project_name column and every other column of every file; with
   a deny-list no denied row is written. *)
C11_RemovalKeepsEveryOtherColumn ==
    /\ RemovalPolicyResolved
    /\ FilteredBeforeRemoval
    /\ DeniedRowsStayOut
    /\ (written # Nothing /\ remove_identifying_info) =>
          /\ ~HasColumn(written, "project_name")
          /\ \A i \in DOMAIN files :
                \A c \in ColSet(dir[files[i]].table) \ IdentifyingColumns :
                    HasColumn(written, c)

(* C11, amended: the same, with the written table keeping every other
   column of every file in union and strict mode, and every other column
   that all files have in intersection mode. *)
C11_RemovalKeepsReconciledColumns ==
    /\ RemovalPolicyResolved
    /\ FilteredBeforeRemoval
    /\ DeniedRowsStayOut
    /\ (written # Nothing /\ remove_identifying_info) =>
          /\ ~HasColumn(written, "project_name")
          /\ \A i \in DOMAIN files :
                \A c \in ColSet(dir[files[i]].table) \ IdentifyingColumns :
                    (args.mode # "intersection"
                       \/ \A j \in DOMAIN files : HasColumn(dir[files[j]].table, c))
                    => HasColumn(written, c)

\* A deny-list of "p" over a file with a row of project q and a row of
\* project p: removal is forced on and the row of q alone is written.
C11_Witness ==
    /\ exclude_projects = {"p"}
    /\ args.keep_identifying_info
    /\ remove_identifying_info
    /\ Len(files) = 1
    /\ dir[files[1]].table.cols = <<"project_name", "x">>
    /\ Len(dir[files[1]].table.rows) = 2
    /\ dir[files[1]].table.rows[1]["project_name"] = "q"
    /\ dir[files[1]].table.rows[2]["project_name"] = "p"
    /\ written # Nothing
    /\ written.cols = <<"x">>
    /\ Len(written.rows) = 1


(* C12: once main has discovered its files, no path of the list resolves to
   the output path, and the list is the sorted list of the other files of
   the directory, the one a run on the directory without the output merges. *)
C12_OutputNeverRead ==
    pc \notin {"main", "discover"} =>
        /\ \A k \in DOMAIN files : Resolve(files[k]) # Resolve(args.output)
        /\ files = SelectSeq(SortedFiles(dir),
                             LAMBDA p : Resolve(p) # Resolve(args.output))

====
